---------------------------- MODULE Spec2Model ----------------------------
(***************************************************************************)
(* A model of popular_names_app.py: the cached loader load_name_data, the  *)
(* module-level total_births/prop columns, and the name/year filter with   *)
(* its summary branch, run as a Streamlit script that is re-executed from  *)
(* the top on every user interaction.                                      *)
(*                                                                         *)
(* Text is modelled as sequences of one-character strings so that slicing, *)
(* suffix tests, integer parsing and lower-casing are computed, not        *)
(* assumed.  A proportion (int64/float64 true division in pandas) is an    *)
(* exact fraction, or the float specials nan / inf / -inf.                 *)
(***************************************************************************)
EXTENDS Integers, Sequences, FiniteSets

\* ------------------------------------------------------------------ bounds
\* Most entries in a modelled archive.
MaxEntries == 2
\* Most rows in one entry of a modelled archive.
MaxRows == 3
\* Most network fetches followed in one behaviour.
MaxFetches == 2

\* ------------------------------------------------------- program constants
\* file[3:7]: the slice bounds of the year in an entry name (line 23).
YearFrom == 3
YearTo == 7
\* value=(1900, 2000): the slider's default range (line 60).
DefaultLo == 1900
DefaultHi == 2000

\* -------------------------------------------------------------------- text
Digits == <<"0", "1", "2", "3", "4", "5", "6", "7", "8", "9">>
UpperCase == <<"A", "B", "C", "D", "E", "F", "G", "H", "I", "J", "K", "L", "M",
               "N", "O", "P", "Q", "R", "S", "T", "U", "V", "W", "X", "Y", "Z">>
LowerCase == <<"a", "b", "c", "d", "e", "f", "g", "h", "i", "j", "k", "l", "m",
               "n", "o", "p", "q", "r", "s", "t", "u", "v", "w", "x", "y", "z">>

Min(a, b) == IF a <= b THEN a ELSE b
Max(a, b) == IF a >= b THEN a ELSE b

IsDigit(c) == \E i \in 1..Len(Digits) : Digits[i] = c
DigitVal(c) == (CHOOSE i \in 1..Len(Digits) : Digits[i] = c) - 1

\* s[a:b] of Python for 0 <= a <= b: clamped to the string, never an error.
PySlice(s, a, b) == SubSeq(s, a + 1, Min(b, Len(s)))

\* s.endswith(suffix)
EndsWith(s, suffix) ==
    /\ Len(s) >= Len(suffix)
    /\ SubSeq(s, Len(s) - Len(suffix) + 1, Len(s)) = suffix

\* c.lower() for one character: ASCII letters fold, anything else is kept.
LowerChar(c) ==
    IF \E i \in 1..Len(UpperCase) : UpperCase[i] = c
    THEN LowerCase[CHOOSE i \in 1..Len(UpperCase) : UpperCase[i] = c]
    ELSE c

\* str.lower()
Lower(s) == [i \in 1..Len(s) |-> LowerChar(s[i])]

\* str.strip() as int() applies it (the only blank of the alphabet is " ").
RECURSIVE LStrip(_)
LStrip(s) == IF s # <<>> /\ Head(s) = " " THEN LStrip(Tail(s)) ELSE s
RECURSIVE RStrip(_)
RStrip(s) ==
    IF s # <<>> /\ s[Len(s)] = " " THEN RStrip(SubSeq(s, 1, Len(s) - 1)) ELSE s

\* The digits part of an int() literal: digits, single underscores between them.
IntBodyOk(b) ==
    /\ b # <<>>
    /\ IsDigit(b[1])
    /\ IsDigit(b[Len(b)])
    /\ \A i \in 1..Len(b) : IsDigit(b[i]) \/ b[i] = "_"
    /\ \A i \in 1..(Len(b) - 1) : ~(b[i] = "_" /\ b[i + 1] = "_")

RECURSIVE IntBodyVal(_, _)
IntBodyVal(b, acc) ==
    IF b = <<>> THEN acc
    ELSE IF Head(b) = "_" THEN IntBodyVal(Tail(b), acc)
    ELSE IntBodyVal(Tail(b), 10 * acc + DigitVal(Head(b)))

\* int(s) of Python for a str: blanks stripped, an optional sign, then the
\* digits; anything else raises ValueError (ok = FALSE).
PyInt(s) ==
    LET t == RStrip(LStrip(s))
        signed == t # <<>> /\ Head(t) \in {"+", "-"}
        body == IF signed THEN Tail(t) ELSE t
    IN  IF IntBodyOk(body)
        THEN [ok |-> TRUE,
              val |-> IF signed /\ Head(t) = "-"
                      THEN 0 - IntBodyVal(body, 0) ELSE IntBodyVal(body, 0)]
        ELSE [ok |-> FALSE, val |-> 0]


\* ------------------------------------------------------------------- cells
\* A parsed CSV field of the count column: an integer, a missing value (NaN,
\* which pandas fills in for a row shorter than the first row), or text that
\* is no number (the column then has dtype object).
IntCell(n) == [k |-> "int", v |-> n]
NaN == [k |-> "nan", v |-> 0]
TextCell == [k |-> "str", v |-> 0]

\* The result of a true division count / total in pandas: a fraction n/d with
\* d # 0, or one of the float specials.
Frac(n, d) == [k |-> "num", n |-> n, d |-> d]
FloatNaN == [k |-> "nan", n |-> 0, d |-> 1]
FloatInf == [k |-> "inf", n |-> 0, d |-> 1]
FloatNegInf == [k |-> "-inf", n |-> 0, d |-> 1]

\* Series / Series, element by element: a missing operand gives NaN, a zero
\* divisor gives NaN or a signed infinity and raises nothing.
PdDiv(c, total) ==
    IF c.k # "int" THEN FloatNaN
    ELSE IF total = 0
         THEN (IF c.v = 0 THEN FloatNaN
               ELSE IF c.v > 0 THEN FloatInf ELSE FloatNegInf)
         ELSE Frac(c.v, total)

\* --------------------------------------------------------- pd.read_csv(f)
\* pd.read_csv(f, header=None) on the rows of one entry.  The first row fixes
\* the number of columns; a later row with more fields is a tokenizing error,
\* a later row with fewer is padded with NaN; a file with no rows is an
\* EmptyDataError.
ReadCsv(rows) ==
    IF rows = <<>>
    THEN [ok |-> FALSE, err |-> "EmptyDataError", ncols |-> 0, rows |-> <<>>]
    ELSE LET ncols == Len(rows[1])
         IN  IF \E i \in 1..Len(rows) : Len(rows[i]) > ncols
             THEN [ok |-> FALSE, err |-> "ParserError", ncols |-> ncols, rows |-> <<>>]
             ELSE [ok |-> TRUE, err |-> "none", ncols |-> ncols,
                   rows |-> [i \in 1..Len(rows) |->
                               [j \in 1..ncols |->
                                  IF j <= Len(rows[i]) THEN rows[i][j] ELSE NaN]]]

\* df.columns = ['name', 'sex', 'count']; df['year'] = year
TagRows(rows, year) ==
    [i \in 1..Len(rows) |->
        [name |-> rows[i][1], sex |-> rows[i][2], count |-> rows[i][3],
         year |-> year]]

\* int(file[3:7])
YearOfFile(file) == PyInt(PySlice(file, YearFrom, YearTo))

\* IsTxt testing the prefix 'yob' where the code tests the suffix.
StartsWithYob(file) == Len(file) >= 3 /\ SubSeq(file, 1, 3) = <<"y", "o", "b">>

\* file.endswith('.txt')
IsTxt(file) == EndsWith(file, <<".", "t", "x", "t">>)

\* files = [file for file in z.namelist() if file.endswith('.txt')]
Files(z) == SelectSeq(z, LAMBDA e : IsTxt(e.name))

\* The loop over files: each entry is read, named, tagged and appended; the
\* first exception ends the call.
RECURSIVE ReadFiles(_, _)
ReadFiles(files, dfs) ==
    IF files = <<>> THEN [ok |-> TRUE, err |-> "none", dfs |-> dfs]
    ELSE LET e == Head(files)
             t == ReadCsv(e.rows)
             y == YearOfFile(e.name)
         IN  IF ~t.ok THEN [ok |-> FALSE, err |-> t.err, dfs |-> <<>>]
             ELSE IF t.ncols # 3
                  THEN [ok |-> FALSE, err |-> "ValueError", dfs |-> <<>>]
             ELSE IF ~y.ok
                  THEN [ok |-> FALSE, err |-> "ValueError", dfs |-> <<>>]
             ELSE ReadFiles(Tail(files), Append(dfs, TagRows(t.rows, y.val)))

\* Concat with the tables taken last to first.
RECURSIVE ConcatReversed(_)
ConcatReversed(dfs) ==
    IF dfs = <<>> THEN <<>> ELSE ConcatReversed(Tail(dfs)) \o Head(dfs)

\* pd.concat(dfs, ignore_index=True) of a non-empty list.
RECURSIVE Concat(_)
Concat(dfs) == IF dfs = <<>> THEN <<>> ELSE Head(dfs) \o Concat(Tail(dfs))

\* ------------------------------------------------- groupby(...).transform
GroupKey(r) == <<r.year, r.sex>>

\* groupby(['year', 'sex'])['count'] summed group by group: one pass over the
\* rows, adding each count to its group's sum (NaN is skipped).
RECURSIVE GroupSums(_, _, _)
GroupSums(rows, i, acc) ==
    IF i > Len(rows) THEN acc
    ELSE LET key == GroupKey(rows[i])
             add == IF rows[i].count.k = "int" THEN rows[i].count.v ELSE 0
         IN  GroupSums(rows, i + 1,
                 [x \in (DOMAIN acc) \cup {key} |->
                     IF x = key
                     THEN (IF key \in DOMAIN acc THEN acc[key] + add ELSE add)
                     ELSE acc[x]])

\* TransformSum grouping by year alone, the sex left out of the key.
RECURSIVE YearSum(_, _, _)
YearSum(rows, year, i) ==
    IF i > Len(rows) THEN 0
    ELSE (IF rows[i].year = year /\ rows[i].count.k = "int"
          THEN rows[i].count.v ELSE 0) + YearSum(rows, year, i + 1)
TransformSumByYear(rows) ==
    [i \in 1..Len(rows) |-> YearSum(rows, rows[i].year, 1)]

\* .transform('sum'): every row gets its group's sum.
TransformSum(rows) ==
    LET sums == GroupSums(rows, 1, [x \in {} |-> 0])
    IN  [i \in 1..Len(rows) |-> sums[GroupKey(rows[i])]]

\* An object column (one holding text) cannot be divided: TypeError.
HasText(rows) == \E i \in 1..Len(rows) : rows[i].count.k = "str"

\* data['pct'] = data['count'] / data.groupby(['year', 'sex'])['count'].transform('sum')
AddPct(rows) ==
    LET total == TransformSum(rows)
    IN  [i \in 1..Len(rows) |->
            [name |-> rows[i].name, sex |-> rows[i].sex, count |-> rows[i].count,
             year |-> rows[i].year, pct |-> PdDiv(rows[i].count, total[i])]]

\* ------------------------------------------------------- load_name_data()
\* What requests.get can do: raise (host unreachable, transfer cut), or hand
\* back a response of any status whose body is the archive or something else.
Responses ==
    {[raised |-> TRUE, status |-> "none", body |-> "none"]} \cup
    [raised : {FALSE}, status : {"success", "failure"}, body : {"archive", "other"}]

\* The response of a server that delivers the archive.
Delivered == [raised |-> FALSE, status |-> "success", body |-> "archive"]

\* The body of load_name_data for archive z and what requests.get did.
\* opened tells whether zipfile.ZipFile was given the body.
LoadBody(z, resp) ==
    IF resp.raised
    THEN [ok |-> FALSE, err |-> "ConnectionError", opened |-> FALSE, data |-> <<>>]
    ELSE IF resp.body # "archive"
    THEN [ok |-> FALSE, err |-> "BadZipFile", opened |-> TRUE, data |-> <<>>]
    ELSE LET read == ReadFiles(Files(z), <<>>)
         IN  IF ~read.ok
             THEN [ok |-> FALSE, err |-> read.err, opened |-> TRUE, data |-> <<>>]
             ELSE IF read.dfs = <<>>
             THEN [ok |-> FALSE, err |-> "ValueError", opened |-> TRUE, data |-> <<>>]
             ELSE IF HasText(Concat(read.dfs))
             THEN [ok |-> FALSE, err |-> "TypeError", opened |-> TRUE, data |-> <<>>]
             ELSE [ok |-> TRUE, err |-> "none", opened |-> TRUE,
                   data |-> AddPct(Concat(read.dfs))]

\* AddTotalsAndProp after dropping the later rows of a repeated
\* (name, sex, year).
AddTotalsAndPropDeduplicated(rows) ==
    LET first == SelectSeq([i \in 1..Len(rows) |-> [i |-> i, r |-> rows[i]]],
                     LAMBDA x : \A j \in 1..(x.i - 1) :
                                   \/ rows[j].name # x.r.name
                                   \/ rows[j].sex # x.r.sex
                                   \/ rows[j].year # x.r.year)
        kept == [i \in 1..Len(first) |-> first[i].r]
        total == TransformSum(kept)
    IN  [i \in 1..Len(kept) |->
            [name |-> kept[i].name, sex |-> kept[i].sex, count |-> kept[i].count,
             year |-> kept[i].year, pct |-> kept[i].pct,
             total_births |-> total[i], prop |-> PdDiv(kept[i].count, total[i])]]

\* ----------------------------------------------------- module-level columns
\* df['total_births'] = df.groupby(['year', 'sex'])['count'].transform('sum')
\* df['prop'] = df['count'] / df['total_births']
AddTotalsAndProp(rows) ==
    LET total == TransformSum(rows)
    IN  [i \in 1..Len(rows) |->
            [name |-> rows[i].name, sex |-> rows[i].sex, count |-> rows[i].count,
             year |-> rows[i].year, pct |-> rows[i].pct,
             total_births |-> total[i], prop |-> PdDiv(rows[i].count, total[i])]]


\* FilterRows comparing the names as they are, without .lower().
FilterRowsCaseSensitive(rows, name, lo, hi) ==
    SelectSeq(rows, LAMBDA r : lo <= r.year /\ r.year <= hi /\ r.name = name)

\* ------------------------------------------------------ filter and summary
\* df[(df['year'].between(lo, hi)) & (df['name'].str.lower() == name.lower())]
FilterRows(rows, name, lo, hi) ==
    SelectSeq(rows, LAMBDA r : /\ lo <= r.year
                               /\ r.year <= hi
                               /\ Lower(r.name) = Lower(name))

\* filtered_data['count'].idxmax(): the first row holding the largest count
\* (NaN is skipped); 0 when no row holds a count, where idxmax has no answer.
IdxMax(rows) ==
    LET held == {i \in 1..Len(rows) : rows[i].count.k = "int"}
    IN  IF held = {} THEN 0
        ELSE CHOOSE i \in held :
                /\ \A j \in held : rows[j].count.v <= rows[i].count.v
                /\ \A j \in held : j < i => rows[j].count.v < rows[i].count.v

\* int(df['year'].min()), int(df['year'].max())
YearMin(rows) == CHOOSE y \in {rows[i].year : i \in 1..Len(rows)} :
                    \A i \in 1..Len(rows) : y <= rows[i].year
YearMax(rows) == CHOOSE y \in {rows[i].year : i \in 1..Len(rows)} :
                    \A i \in 1..Len(rows) : y >= rows[i].year

\* ---------------------------------------------------------------- alphabet
\* Names of people, as text.
Alice == <<"A", "l", "i", "c", "e">>
ALICE == <<"A", "L", "I", "C", "E">>
Bob == <<"B", "o", "b">>
Eve == <<"E", "v", "e">>
Zoe == <<"Z", "o", "e">>
Sam == <<"S", "a", "m">>
Tom == <<"T", "o", "m">>
Ann == <<"A", "n", "n">>

\* Rows of an entry, as read_csv tokenizes them.
RowAlice60 == <<Alice, "F", IntCell(60)>>
RowAlice40 == <<Alice, "F", IntCell(40)>>
RowBob50 == <<Bob, "M", IntCell(50)>>
\* a count of zero
RowZoe0 == <<Zoe, "M", IntCell(0)>>
\* a negative count
RowEveNeg == <<Eve, "F", IntCell(0 - 40)>>
\* a count that is no number
RowSamText == <<Sam, "M", TextCell>>
\* two fields only
RowTomShort == <<Tom, "M">>
\* four fields
RowAnnLong == <<Ann, "F", IntCell(5), IntCell(1)>>

RowPool == {RowAlice60, RowAlice40, RowBob50, RowZoe0, RowEveNeg,
            RowSamText, RowTomShort, RowAnnLong}

\* Entry names.
Yob1900 == <<"y", "o", "b", "1", "9", "0", "0", ".", "t", "x", "t">>
Yob1950 == <<"y", "o", "b", "1", "9", "5", "0", ".", "t", "x", "t">>
Yob1999 == <<"y", "o", "b", "1", "9", "9", "9", ".", "t", "x", "t">>
Yob2000 == <<"y", "o", "b", "2", "0", "0", "0", ".", "t", "x", "t">>
\* another prefix, the year of Yob1999
Abc1999 == <<"a", "b", "c", "1", "9", "9", "9", ".", "t", "x", "t">>
\* a sign, a blank, an underscore where a digit of the year should be
YobPlus199 == <<"y", "o", "b", "+", "1", "9", "9", ".", "t", "x", "t">>
YobBlank199 == <<"y", "o", "b", " ", "1", "9", "9", ".", "t", "x", "t">>
YobUnder199 == <<"y", "o", "b", "1", "_", "9", "9", ".", "t", "x", "t">>
\* letters where the year should be
YobAbcd == <<"y", "o", "b", "a", "b", "c", "d", ".", "t", "x", "t">>
\* a name too short to hold a year
ShortTxt == <<"a", ".", "t", "x", "t">>
\* not a .txt entry, though a year stands at the year's place
Yob1999Pdf == <<"y", "o", "b", "1", "9", "9", "9", ".", "p", "d", "f">>

EntryNames == {Yob1999, Yob2000, Abc1999, YobPlus199, YobBlank199, YobUnder199,
               YobAbcd, ShortTxt, Yob1999Pdf}

Entry(name, rows) == [name |-> name, rows |-> rows]

\* Sequences over S of length lo..hi.
SeqsOf(S, lo, hi) == UNION {[1..n -> S] : n \in lo..hi}

\* z.namelist() holds every entry once: no two entries of an archive share a name.
DistinctNames(z) == \A i, j \in 1..Len(z) : i # j => z[i].name # z[j].name

\* Contents that parse, for the archives that vary the entry names.
PlainContents == {<<RowAlice60, RowBob50>>, <<RowAlice40>>}

\* Archives that vary the entry names.
NameArchives ==
    {z \in SeqsOf([name : EntryNames, rows : PlainContents], 0, MaxEntries) :
        DistinctNames(z)}

\* Archives that vary the rows of one entry, alone or beside an entry of
\* another year.
RowArchives ==
    LET rich == {Entry(Yob1999, rows) : rows \in SeqsOf(RowPool, 0, MaxRows)}
        side == {Entry(Yob2000, rows) : rows \in PlainContents}
    IN  {<<e>> : e \in rich}
        \cup {<<e, c>> : e \in rich, c \in side}
        \cup {<<c, e>> : e \in rich, c \in side}

LoaderArchives == NameArchives \cup RowArchives

\* Archives of the interactive runs: two that span the slider's default range
\* (one with a year missing in between), one that does not span it, one whose
\* entry name holds no year.
SessionArchives ==
    {<<Entry(Yob1900, <<RowAlice60, RowAlice40, RowBob50>>),
       Entry(Yob2000, <<<<ALICE, "F", IntCell(70)>>, RowBob50>>)>>,
     <<Entry(Yob1900, <<RowAlice40>>),
       Entry(Yob1950, <<RowAlice60, RowBob50>>),
       Entry(Yob1999Pdf, <<RowZoe0>>),
       Entry(Yob2000, <<RowAlice60, RowZoe0>>)>>,
     <<Entry(Yob1999, <<RowAlice60, RowBob50>>)>>,
     <<Entry(Yob1900, <<RowAlice60>>), Entry(YobAbcd, <<RowBob50>>)>>}

\* What the user can type into the name field.
QueryNames == {<<>>,
               <<"a", "l", "i", "c", "e">>,
               <<"B", "O", "B">>,
               Eve}

\* The years the user can drag the slider's ends to.
YearChoices == {1900, 1950, 2000}

\* ------------------------------------------------------------------- state
VARIABLES
    archive,          \* the ZIP archive the remote host serves
    cache,            \* st.cache_data's entry for load_name_data
    fetches,          \* calls of requests.get so far
    resp,             \* what the last requests.get did
    opened,           \* whether the last fetch handed its body to ZipFile
    pc,               \* where the script run stands
    error,            \* the exception that ended the run, or "none"
    df,               \* the script's df
    name_of_interest, \* the text field's value
    year_range,       \* the slider's value
    filtered_data,    \* the script's filtered_data
    branch,           \* the tab-2 branch taken: "summary" or "warning"
    most_popular_year

vars == <<archive, cache, fetches, resp, opened, pc, error, df,
          name_of_interest, year_range, filtered_data, branch,
          most_popular_year>>

NoResponse == [raised |-> FALSE, status |-> "none", body |-> "none"]
EmptyCache == [set |-> FALSE, data |-> <<>>]

InitRun ==
    /\ cache = EmptyCache
    /\ fetches = 0
    /\ resp = NoResponse
    /\ opened = FALSE
    /\ pc = "start"
    /\ error = "none"
    /\ df = <<>>
    /\ name_of_interest = <<>>
    /\ year_range = <<DefaultLo, DefaultHi>>
    /\ filtered_data = <<>>
    /\ branch = "none"
    /\ most_popular_year = 0

Init == archive \in SessionArchives /\ InitRun

InitLoader == archive \in LoaderArchives /\ InitRun

\* ----------------------------------------------------------------- actions
\* @st.cache_data: the value stored for a call, kept until the process ends;
\* a caller gets a copy of it.
CacheStore(data) == [set |-> TRUE, data |-> data]

\* df = load_name_data() under @st.cache_data, line 32.  A stored value is
\* returned without running the body.  Otherwise the body runs: its value is
\* stored and returned, an exception stores nothing and ends the run.
CallLoadNameData(responses) ==
    /\ pc = "start"
    /\ IF cache.set
       THEN /\ df' = cache.data
            /\ pc' = "loaded"
            /\ UNCHANGED <<cache, fetches, resp, opened, error>>
       ELSE /\ fetches < MaxFetches
            /\ \E r \in responses :
                 LET out == LoadBody(archive, r)
                 IN  /\ resp' = r
                     /\ opened' = out.opened
                     /\ fetches' = fetches + 1
                     /\ IF out.ok
                        THEN /\ cache' = CacheStore(out.data)
                             /\ df' = out.data
                             /\ pc' = "loaded"
                             /\ error' = "none"
                        ELSE /\ cache' = cache
                             /\ df' = <<>>
                             /\ pc' = "failed"
                             /\ error' = out.err
    /\ UNCHANGED <<archive, name_of_interest, year_range, filtered_data, branch,
                   most_popular_year>>

LoadNameData == CallLoadNameData(Responses)

\* The call when the host delivers the archive.
LoadDelivered == CallLoadNameData({Delivered})

\* AddColumns on a df that is the cached object itself (what st.cache_resource
\* would hand out): the columns land in the cache too.
AddColumnsInPlace ==
    /\ pc = "loaded"
    /\ df' = AddTotalsAndProp(df)
    /\ cache' = [cache EXCEPT !.data = AddTotalsAndProp(df)]
    /\ pc' = "enriched"
    /\ UNCHANGED <<archive, fetches, resp, opened, error, name_of_interest,
                   year_range, filtered_data, branch, most_popular_year>>

\* Lines 35-36: the two columns are added to the script's df, which is the
\* caller's copy of the cached value.
AddColumns ==
    /\ pc = "loaded"
    /\ df' = AddTotalsAndProp(df)
    /\ pc' = "enriched"
    /\ UNCHANGED <<archive, cache, fetches, resp, opened, error,
                   name_of_interest, year_range, filtered_data, branch,
                   most_popular_year>>

\* Lines 50-61: the widgets hand back their values.  st.slider raises when
\* its default value=(1900, 2000) does not lie within min_value..max_value.
Widgets ==
    /\ pc = "enriched"
    /\ IF YearMin(df) <= DefaultLo /\ DefaultHi <= YearMax(df)
       THEN pc' = "widgets" /\ error' = "none"
       ELSE pc' = "failed" /\ error' = "StreamlitAPIException"
    /\ UNCHANGED <<archive, cache, fetches, resp, opened, df, name_of_interest,
                   year_range, filtered_data, branch, most_popular_year>>

\* Lines 64-113: the filter, then tab 2's summary or warning.
FilterAndSummarise ==
    /\ pc = "widgets"
    /\ LET f == FilterRows(df, name_of_interest, year_range[1], year_range[2])
       IN  /\ filtered_data' = f
           /\ IF f # <<>>
              THEN IF IdxMax(f) = 0
                   THEN /\ pc' = "failed"
                        /\ error' = "KeyError"
                        /\ branch' = "none"
                        /\ most_popular_year' = 0
                   ELSE /\ pc' = "done"
                        /\ error' = "none"
                        /\ branch' = "summary"
                        /\ most_popular_year' = f[IdxMax(f)].year
              ELSE /\ pc' = "done"
                   /\ error' = "none"
                   /\ branch' = "warning"
                   /\ most_popular_year' = 0
    /\ UNCHANGED <<archive, cache, fetches, resp, opened, df, name_of_interest,
                   year_range>>

\* The user edits the name or drags the slider: Streamlit runs the script
\* again from the top with the widgets' new values.
Interact ==
    /\ pc = "done"
    /\ \E name \in QueryNames, lo, hi \in YearChoices :
         /\ YearMin(df) <= lo /\ lo <= hi /\ hi <= YearMax(df)
         /\ name_of_interest' = name
         /\ year_range' = <<lo, hi>>
    /\ pc' = "start"
    /\ df' = <<>>
    /\ filtered_data' = <<>>
    /\ branch' = "none"
    /\ most_popular_year' = 0
    /\ UNCHANGED <<archive, cache, fetches, resp, opened, error>>

\* After an exception the user runs the script again.
Rerun ==
    /\ pc = "failed"
    /\ pc' = "start"
    /\ error' = "none"
    /\ df' = <<>>
    /\ filtered_data' = <<>>
    /\ branch' = "none"
    /\ most_popular_year' = 0
    /\ UNCHANGED <<archive, cache, fetches, resp, opened, name_of_interest,
                   year_range>>

Next ==
    \/ LoadNameData
    \/ AddColumns
    \/ Widgets
    \/ FilterAndSummarise
    \/ Interact
    \/ Rerun

\* The interactive program: any archive of SessionArchives, any network.
Spec == Init /\ [][Next]_vars

NextLoader ==
    \/ LoadDelivered
    \/ AddColumns

\* The loader and the aggregation applied once to every archive of
\* LoaderArchives, delivered intact.
SpecLoader == InitLoader /\ [][NextLoader]_vars


\* ------------------------------------------------- vocabulary of the claims
\* These definitions restate, without the operators of the model above, what
\* the claims speak of.
Abs(x) == IF x < 0 THEN 0 - x ELSE x

RECURSIVE Gcd(_, _)
Gcd(a, b) == IF b = 0 THEN a ELSE Gcd(b, a % b)

\* Exact fractions <<n, d>>, d > 0, in lowest terms.
RatNorm(n, d) ==
    LET g == Gcd(Abs(n), Abs(d))
        s == IF d < 0 THEN 0 - 1 ELSE 1
    IN  <<(s * n) \div g, (s * d) \div g>>
RatAdd(p, q) == RatNorm(p[1] * q[2] + q[1] * p[2], p[2] * q[2])

\* Rows i and j of a table lie in one (year, sex) group.
SameGroup(rows, i, j) == rows[i].year = rows[j].year /\ rows[i].sex = rows[j].sex
GroupOf(rows, i) == {j \in 1..Len(rows) : SameGroup(rows, i, j)}
HoldsCount(rows, i) == rows[i].count.k = "int"

\* The sum of the counts held by the rows S.
RECURSIVE CountSum(_, _)
CountSum(rows, S) ==
    IF S = {} THEN 0
    ELSE LET i == CHOOSE x \in S : TRUE
         IN  (IF HoldsCount(rows, i) THEN rows[i].count.v ELSE 0)
             + CountSum(rows, S \ {i})

\* The exact sum of the proportions (all finite) of the rows S.
RECURSIVE PropSum(_, _)
PropSum(rows, S) ==
    IF S = {} THEN <<0, 1>>
    ELSE LET i == CHOOSE x \in S : TRUE
         IN  RatAdd(RatNorm(rows[i].prop.n, rows[i].prop.d), PropSum(rows, S \ {i}))

Finite(p) == p.k = "num" /\ p.d # 0
\* Proportion p is the fraction n/d.
IsFraction(p, n, d) == Finite(p) /\ p.n * d = n * p.d

\* The entry name ends in ".txt".
TxtSuffix(name) ==
    /\ Len(name) >= 4
    /\ name[Len(name) - 3] = "."
    /\ name[Len(name) - 2] = "t"
    /\ name[Len(name) - 1] = "x"
    /\ name[Len(name)] = "t"
DecimalDigit(c) == c \in {"0", "1", "2", "3", "4", "5", "6", "7", "8", "9"}
\* The characters at offsets 3..6 of the name are four decimal digits.
FourDigitYear(name) ==
    Len(name) >= 7 /\ \A p \in 4..7 : DecimalDigit(name[p])
\* The whole convention: yob, a four-digit year, .txt.
YobPattern(name) ==
    /\ Len(name) = 11
    /\ name[1] = "y" /\ name[2] = "o" /\ name[3] = "b"
    /\ FourDigitYear(name)
    /\ TxtSuffix(name)

\* The number of rows held by the entries K (indices) of archive z.
RECURSIVE RowsOf(_, _)
RowsOf(z, K) ==
    IF K = {} THEN 0
    ELSE LET k == CHOOSE x \in K : TRUE
         IN  Len(z[k].rows) + RowsOf(z, K \ {k})

\* Letters a and b are one letter, whatever their cases.
SameLetter(a, b) ==
    \/ a = b
    \/ \E i \in 1..26 : {a, b} = {UpperCase[i], LowerCase[i]}
EqualIgnoringCase(s, t) ==
    Len(s) = Len(t) /\ \A i \in 1..Len(s) : SameLetter(s[i], t[i])

\* Row i of the enriched table answers the query of the widgets.
Qualifies(i) ==
    /\ EqualIgnoringCase(df[i].name, name_of_interest)
    /\ year_range[1] <= df[i].year
    /\ df[i].year <= year_range[2]
Qualifying == {i \in 1..Len(df) : Qualifies(i)}

\* ------------------------------------------------------------------ claims

C2_ProportionInUnitInterval ==
    pc = "enriched" =>
        \A i \in 1..Len(df) :
            /\ Finite(df[i].prop)
            /\ 0 <= df[i].prop.n * df[i].prop.d
            /\ Abs(df[i].prop.n) <= Abs(df[i].prop.d)

\* C3: the aggregation keeps every row of the unified table in its place,
\* unchanged, gives it the sum of the counts of its (year, sex) group as
\* total and count / total as proportion, and two F rows Alice 60 and
\* Alice 40 that make up a year's group get 0.6 and 0.4 of a total of 100.
C3_ProportionIsCountOverGroupSum ==
    pc = "enriched" =>
        /\ Len(df) = Len(cache.data)
        /\ \A i \in 1..Len(df) :
             LET total == CountSum(cache.data, GroupOf(cache.data, i))
             IN  /\ df[i].name = cache.data[i].name
                 /\ df[i].sex = cache.data[i].sex
                 /\ df[i].count = cache.data[i].count
                 /\ df[i].year = cache.data[i].year
                 /\ df[i].total_births = total
                 /\ IF HoldsCount(df, i) /\ total # 0
                    THEN IsFraction(df[i].prop, df[i].count.v, total)
                    ELSE ~Finite(df[i].prop)
        /\ \A i, j \in 1..Len(df) :
             (/\ GroupOf(df, i) = {i, j}
              /\ df[i].name = Alice /\ df[j].name = Alice
              /\ df[i].count = IntCell(60) /\ df[j].count = IntCell(40))
             => /\ df[i].total_births = 100
                /\ IsFraction(df[i].prop, 6, 10)
                /\ IsFraction(df[j].prop, 4, 10)

\* C3's case: the enriched table holds a group made of Alice,F,60 and
\* Alice,F,40, and a row of the other sex in the same year.
C3_Witness ==
    /\ pc = "enriched"
    /\ \E i, j, m \in 1..Len(df) :
         /\ GroupOf(df, i) = {i, j}
         /\ df[i].name = Alice /\ df[j].name = Alice
         /\ df[i].count = IntCell(60) /\ df[j].count = IntCell(40)
         /\ df[m].year = df[i].year /\ df[m].sex # df[i].sex

\* The entries of the archive that end in ".txt", by index, and the place
\* in the unified table where the rows of entry k start.
TxtEntries == {k \in 1..Len(archive) : TxtSuffix(archive[k].name)}
RowsBefore(k) == RowsOf(archive, {m \in TxtEntries : m < k})
\* The year written at offsets 3..6 of the name of entry k.
YearAtOffsets(k) ==
    PyInt(<<archive[k].name[4], archive[k].name[5],
            archive[k].name[6], archive[k].name[7]>>).val

\* C4: a returned unified table holds exactly the rows of the enumerated
\* entries, entry after entry in the archive's order and row after row in the
\* entry's order, each row tagged with the integer at offsets 3..6 of the
\* name of its entry.
C4_UnifiedTableIsTaggedConcatenation ==
    pc = "loaded" =>
        /\ Len(df) = RowsOf(archive, TxtEntries)
        /\ \A k \in TxtEntries :
             /\ Len(archive[k].name) >= 7
             /\ \A j \in 1..Len(archive[k].rows) :
                  LET raw == archive[k].rows[j]
                      row == df[RowsBefore(k) + j]
                  IN  /\ row.name = raw[1]
                      /\ row.sex = raw[2]
                      /\ row.count = IF Len(raw) >= 3 THEN raw[3] ELSE NaN
                      /\ row.year = YearAtOffsets(k)

\* C4's case: a table returned for an archive of two enumerated entries of
\* different years, the first of them holding two rows.
C4_Witness ==
    /\ pc = "loaded"
    /\ Len(archive) >= 2
    /\ {1, 2} \subseteq TxtEntries
    /\ Len(archive[1].rows) = 2
    /\ archive[1].rows # archive[2].rows
    /\ YearAtOffsets(1) # YearAtOffsets(2)

\* C6 as stated: a table is returned only if every enumerated entry has four
\* decimal digits at offsets 3..6 of its name.
C6_NonDigitYearFails ==
    pc = "loaded" => \A k \in TxtEntries : FourDigitYear(archive[k].name)

\* C7 as stated: the rows of a returned table are those of the entries named
\* yob, four digits, .txt and of no other entry.
C7_OnlyYobEntriesContribute ==
    pc = "loaded" =>
        Len(df) = RowsOf(archive, {k \in 1..Len(archive) : YobPattern(archive[k].name)})

\* C7 amended: the rows of a returned table are those of the entries whose
\* name ends in ".txt", whatever precedes the suffix, and of no other entry;
\* every row carries the year of such an entry.
C7_OnlyTxtEntriesContribute ==
    pc = "loaded" =>
        /\ Len(df) = RowsOf(archive, TxtEntries)
        /\ \A i \in 1..Len(df) : \E k \in TxtEntries : df[i].year = YearAtOffsets(k)

\* C7's case: a table returned for an archive that holds an entry not ending
\* in ".txt" and a ".txt" entry outside the yob convention.
C7_Witness ==
    /\ pc = "loaded"
    /\ \E k \in 1..Len(archive) : ~TxtSuffix(archive[k].name)
    /\ \E k \in TxtEntries : ~YobPattern(archive[k].name)

\* C8 as stated: a table is returned only if every row of every enumerated
\* entry has three fields with a count that is a non-negative integer, so
\* every count of a returned table is a non-negative integer.
C8_MalformedRowFails ==
    pc = "loaded" =>
        /\ \A k \in TxtEntries : \A j \in 1..Len(archive[k].rows) :
             LET raw == archive[k].rows[j]
             IN  Len(raw) = 3 /\ raw[3].k = "int" /\ raw[3].v >= 0
        /\ \A i \in 1..Len(df) : HoldsCount(df, i) /\ df[i].count.v >= 0

\* C5 as stated: over any sequence of script runs the archive is fetched at
\* most once.
C5_FetchedAtMostOnce == fetches <= 1

\* C5 amended: a fetch happens only while the cache is empty; a call that
\* returns a table leaves that table in the cache and hands the script the
\* cached table; the cache is written only by a fetch, only while empty, and
\* a written cache is never changed again, so the archive is fetched with
\* success at most once.  (A call that fails stores nothing and the next run
\* fetches again.)
C5_CacheWrittenOnceReadOnlyAfter ==
    [][/\ fetches' # fetches => ~cache.set /\ fetches' = fetches + 1
       /\ cache' # cache => ~cache.set /\ cache'.set /\ fetches' # fetches
       /\ cache.set => cache' = cache
       /\ (pc = "start" /\ pc' = "loaded") => cache'.set /\ df' = cache'.data
      ]_vars

\* C5's case: a later run, started by the user, has been served from the
\* cache and has added its columns to its own copy.
C5_Witness ==
    /\ cache.set
    /\ fetches = 1
    /\ name_of_interest # <<>>
    /\ pc = "enriched"
    /\ df # cache.data

\* C9 as stated: when requests.get raises or the response is not a success,
\* the body is not opened as an archive and no table comes of it.
C9_FailedFetchIsNotParsed ==
    (resp.raised \/ resp.status = "failure") => ~opened /\ ~cache.set

\* C10: when the run has filtered, filtered_data holds exactly the rows of
\* the enriched table whose name is the query up to case and whose year lies
\* in the inclusive range, in the table's order; when there is none the run
\* ends in the warning branch with no most popular year and no exception,
\* and otherwise in the summary branch.
C10_FilterIsExactAndEmptyIsNoError ==
    /\ error # "KeyError"
    /\ pc = "done" =>
         /\ Len(filtered_data) = Cardinality(Qualifying)
         /\ \A i \in Qualifying :
              filtered_data[Cardinality({j \in Qualifying : j <= i})] = df[i]
         /\ error = "none"
         /\ IF Qualifying = {}
            THEN /\ filtered_data = <<>>
                 /\ branch = "warning"
                 /\ most_popular_year = 0
            ELSE branch = "summary"

\* C10's case: the name is in the dataset in another case, the chosen range
\* lies between two of the dataset's years and holds none, and the run has
\* ended in the warning branch.
C10_Witness ==
    /\ pc = "done"
    /\ branch = "warning"
    /\ \E i \in 1..Len(df) : EqualIgnoringCase(df[i].name, name_of_interest)
                             /\ df[i].name # name_of_interest
    /\ \E i, j \in 1..Len(df) : df[i].year < year_range[1] /\ year_range[2] < df[j].year

=============================================================================
